---------------------------- MODULE Spec2Model ----------------------------
(***************************************************************************)
(* Future-Me (src/app/app.py): ingestion of commit messages across all     *)
(* repositories under a global cap, the one-shot index build at import     *)
(* time, and the /api/chat handler with its context formatting, its prompt *)
(* and its per-session histories.                                          *)
(*                                                                         *)
(* Text is modelled as a sequence of characters, so that str.strip() is a  *)
(* computation and not the identity.  The GitHub provider, the Redis index *)
(* and the LLM are environments: what they return or raise is chosen       *)
(* nondeterministically at the step that calls them.                       *)
(***************************************************************************)
EXTENDS Integers, Sequences, FiniteSets, TLC

(***************************************************************************)
(* Bounds of the model.                                                    *)
(***************************************************************************)
\* longest commit list a repository has
MaxCommits == 2
\* largest value of max_global_commits (the smallest is -1: int() accepts it)
MaxCap == 2
\* chat requests that reach the server in one run
MaxCalls == 3

(***************************************************************************)
(* The provider's data.                                                    *)
(***************************************************************************)
\* user.get_repos(), in the order the provider lists them
ListedRepos == <<"A", "B">>

\* r.updated_at: two repositories are updated one before the other, in
\* either order, or at the same time
UpdateTimes == {1, 2}

Repos == {ListedRepos[i] : i \in 1..Len(ListedRepos)}

\* Python's None where the other values are strings
None == "None"

\* c.commit.message: None, or a string (here over the characters " " and "a");
\* NoMessage stands for None among the character sequences
NoMessage == <<"None">>

Messages == {NoMessage, <<>>, <<" ">>, <<" ", "a">>}

Whitespace == {" "}

Min(a, b) == IF a <= b THEN a ELSE b

RECURSIVE LStrip(_)
LStrip(s) ==
    IF s = <<>> THEN <<>>
    ELSE IF Head(s) \in Whitespace THEN LStrip(Tail(s)) ELSE s

RECURSIVE RStrip(_)
RStrip(s) ==
    IF s = <<>> THEN <<>>
    ELSE IF s[Len(s)] \in Whitespace THEN RStrip(SubSeq(s, 1, Len(s) - 1)) ELSE s

\* str.strip()
Strip(s) == RStrip(LStrip(s))

\* a changed conversion: the strip() of line 79 left out
CommitTextUnstripped(message) == IF message = NoMessage THEN <<>> ELSE message

\* msg = c.commit.message or "" ; msg = msg.strip()
CommitText(message) == Strip(IF message = NoMessage THEN <<>> ELSE message)

\* c.sha of record i of repository r: a sequence of characters, longer than
\* the seven that format_context shows
Sha(r, i) == <<r, ToString(i), "0", "0", "0", "0", "0", "0">>

\* the records whose c.commit.author is missing
NoAuthor == {<<"B", 1>>}

\* line 85: date = c.commit.author.date.isoformat() if c.commit.author else None
CommitDate(r, i) ==
    IF <<r, i>> \in NoAuthor THEN None ELSE "2024-01-0" \o ToString(i) \o "T09:30:00"

\* lines 87-97: Document(page_content=msg, metadata={repo, sha, date, ...}),
\* the metadata as fields of the record next to page_content
Document(r, i, msg) ==
    [page_content |-> msg, repo |-> r, sha |-> Sha(r, i), date |-> CommitDate(r, i)]

(***************************************************************************)
(* repos.sort(key=lambda r: r.updated_at, reverse=True): a stable sort,    *)
(* equal keys keep the order of the listing.                               *)
(***************************************************************************)
RECURSIVE InsertDesc(_, _, _)
InsertDesc(r, sorted, key) ==
    IF sorted = <<>> THEN <<r>>
    ELSE IF key[r] > key[Head(sorted)] THEN <<r>> \o sorted
    ELSE <<Head(sorted)>> \o InsertDesc(r, Tail(sorted), key)

\* a changed sort: line 63 left out, the listing order is kept
Unsorted(listing, key) == listing

RECURSIVE SortDesc(_, _)
SortDesc(listing, key) ==
    IF listing = <<>> THEN <<>>
    ELSE InsertDesc(listing[Len(listing)],
                    SortDesc(SubSeq(listing, 1, Len(listing) - 1), key), key)

NoIndex == "NoIndex"

Idle == [stage |-> "idle"]

\* a changed cap test: stops one record late
CapReachedLate(total, cap) == total > cap

\* lines 66 and 75: total_commits_collected >= max_global_commits
CapReached(total, cap) == total >= cap

VARIABLES
    updated_at,               \* provider: repo -> update time
    repo_commits,             \* provider: repo -> its commits' messages, native order
    max_global_commits,       \* the cap handed to fetch_all_repos_commits
    pc,                       \* where the process is
    repos,                    \* the sorted list of line 63
    ri,                       \* position of the outer for loop in repos
    ci,                       \* records the inner for loop has taken from the iterator
    all_docs,
    total_commits_collected,
    fetch_error,              \* repo -> "none" | "github" | "other": what its fetch raised
    fail_at,                  \* repo -> records taken from it when its fetch raised (-1: never)
    redis_index,              \* the documents stored under REDIS_INDEX_NAME, or NoIndex
    vector_store,             \* the module global of line 149
    _session_store,           \* session id -> the messages of its ChatMessageHistory
    inbox,                    \* requests received whose handler has not started
    running,                  \* the chat call the event loop is executing, or Idle
    arrived,                  \* requests received so far
    uuids,                    \* identifiers uuid.uuid4() has returned so far
    succeeded                 \* session id -> the (message, answer) of each call that returned

ingestVars == <<repos, ri, ci, all_docs, total_commits_collected, fetch_error, fail_at>>

worldVars == <<updated_at, repo_commits, max_global_commits>>

serverVars == <<redis_index, vector_store, _session_store, inbox, running, arrived, uuids,
               succeeded>>

vars == <<worldVars, pc, ingestVars, serverVars>>

SeqsUpTo(S, n) == UNION {[1..k -> S] : k \in 0..n}

Caps == -1..MaxCap

InitIngest ==
    /\ updated_at \in [Repos -> UpdateTimes]
    /\ repo_commits \in [Repos -> SeqsUpTo(Messages, MaxCommits)]
    /\ max_global_commits \in Caps
    /\ pc = "fetch"
    /\ repos = <<>>
    /\ ri = 0
    /\ ci = 0
    /\ all_docs = <<>>
    /\ total_commits_collected = 0
    /\ fetch_error = [r \in Repos |-> "none"]
    /\ fail_at = [r \in Repos |-> -1]
    /\ redis_index = NoIndex
    /\ vector_store = None
    /\ _session_store = <<>>
    /\ inbox = <<>>
    /\ running = Idle
    /\ arrived = 0
    /\ uuids = 0
    /\ succeeded = <<>>

(***************************************************************************)
(* fetch_all_repos_commits                                                 *)
(***************************************************************************)
\* lines 52-63: list the repositories and sort them, most recently updated first
ListRepos ==
    /\ pc = "fetch"
    /\ repos' = SortDesc(ListedRepos, updated_at)
    /\ ri' = 1
    /\ pc' = "for_repo"
    /\ UNCHANGED <<worldVars, ci, all_docs, total_commits_collected, fetch_error, fail_at, serverVars>>

\* a changed loop head: the cap test of lines 66-67 left out
ForRepoNoCapCheck ==
    /\ pc = "for_repo"
    /\ IF ri > Len(repos)
       THEN pc' = "return" /\ UNCHANGED ci
       ELSE pc' = "for_commit" /\ ci' = 0
    /\ UNCHANGED <<worldVars, repos, ri, all_docs, total_commits_collected, fetch_error, fail_at, serverVars>>

\* lines 65-72: the head of the outer loop; repo.get_commits() is lazy
ForRepo ==
    /\ pc = "for_repo"
    /\ IF ri > Len(repos) \/ CapReached(total_commits_collected, max_global_commits)
       THEN pc' = "return" /\ UNCHANGED ci
       ELSE pc' = "for_commit" /\ ci' = 0
    /\ UNCHANGED <<worldVars, repos, ri, all_docs, total_commits_collected, fetch_error, fail_at, serverVars>>

\* The iterator may go to the provider for its first record and whenever
\* records are left to fetch.
MayRaise == ci = 0 \/ ci < Len(repo_commits[repos[ri]])

\* a changed loop body: the counter is advanced before the test for an
\* empty message
NextCommitCountsBlank ==
    /\ pc = "for_commit"
    /\ LET r == repos[ri]
           n == ci + 1
       IN  IF \/ ci >= Len(repo_commits[r])
              \/ CapReached(total_commits_collected, max_global_commits)
           THEN /\ ri' = ri + 1
                /\ pc' = "for_repo"
                /\ UNCHANGED <<ci, all_docs, total_commits_collected>>
           ELSE LET msg == CommitText(repo_commits[r][n])
                IN  /\ ci' = n
                    /\ ri' = ri
                    /\ pc' = "for_commit"
                    /\ total_commits_collected' = total_commits_collected + 1
                    /\ IF msg = <<>>
                       THEN UNCHANGED all_docs
                       ELSE all_docs' = Append(all_docs, Document(r, n, msg))
    /\ UNCHANGED <<worldVars, repos, fetch_error, fail_at, serverVars>>

\* lines 74-98: the iterator yields the next record, or is exhausted
NextCommit ==
    /\ pc = "for_commit"
    /\ LET r == repos[ri]
           n == ci + 1
       IN  IF \/ ci >= Len(repo_commits[r])
              \/ CapReached(total_commits_collected, max_global_commits)
           THEN \* exhausted, or the break of line 76: on to the next repository
                /\ ri' = ri + 1
                /\ pc' = "for_repo"
                /\ UNCHANGED <<ci, all_docs, total_commits_collected>>
           ELSE LET msg == CommitText(repo_commits[r][n])
                IN  /\ ci' = n
                    /\ ri' = ri
                    /\ pc' = "for_commit"
                    /\ IF msg = <<>>
                       THEN UNCHANGED <<all_docs, total_commits_collected>>
                       ELSE /\ all_docs' = Append(all_docs, Document(r, n, msg))
                            /\ total_commits_collected' = total_commits_collected + 1
    /\ UNCHANGED <<worldVars, repos, fetch_error, fail_at, serverVars>>

\* a changed handler: the except clause ends the outer loop
RaiseGithubAborts ==
    /\ pc = "for_commit"
    /\ MayRaise
    /\ fetch_error' = [fetch_error EXCEPT ![repos[ri]] = "github"]
    /\ fail_at' = [fail_at EXCEPT ![repos[ri]] = ci]
    /\ pc' = "return"
    /\ UNCHANGED <<worldVars, repos, ri, ci, all_docs, total_commits_collected, serverVars>>

\* a changed handler: the try is inside the inner loop, so the loop goes on
\* with the records after the one whose fetch raised
RaiseGithubInsideLoop ==
    /\ pc = "for_commit"
    /\ MayRaise
    /\ fetch_error' = [fetch_error EXCEPT ![repos[ri]] = "github"]
    /\ fail_at' = [fail_at EXCEPT ![repos[ri]] = ci]
    /\ ci' = ci + 1
    /\ pc' = "for_commit"
    /\ UNCHANGED <<worldVars, repos, ri, all_docs, total_commits_collected, serverVars>>

\* lines 100-103: the iterator raises GithubException; the repository is left
RaiseGithub ==
    /\ pc = "for_commit"
    /\ MayRaise
    /\ fetch_error' = [fetch_error EXCEPT ![repos[ri]] = "github"]
    /\ fail_at' = [fail_at EXCEPT ![repos[ri]] = ci]
    /\ ri' = ri + 1
    /\ pc' = "for_repo"
    /\ UNCHANGED <<worldVars, repos, ci, all_docs, total_commits_collected, serverVars>>

\* the iterator raises anything else (a connection error, a timeout): no
\* handler, the exception leaves fetch_all_repos_commits and the import
RaiseOther ==
    /\ pc = "for_commit"
    /\ MayRaise
    /\ fetch_error' = [fetch_error EXCEPT ![repos[ri]] = "other"]
    /\ fail_at' = [fail_at EXCEPT ![repos[ri]] = ci]
    /\ pc' = "crashed"
    /\ UNCHANGED <<worldVars, repos, ri, ci, all_docs, total_commits_collected, serverVars>>

\* lines 105-106
Return ==
    /\ pc = "return"
    /\ pc' = "returned"
    /\ UNCHANGED <<worldVars, ingestVars, serverVars>>

NextIngest ==
    \/ ListRepos
    \/ ForRepo
    \/ NextCommit
    \/ RaiseGithub
    \/ RaiseOther
    \/ Return

SpecIngest == InitIngest /\ [][NextIngest]_vars

(***************************************************************************)
(* build_or_refresh_index, run once by the import of the module (line 149) *)
(***************************************************************************)
\* lines 127-133: drop_index(delete_documents=True) succeeds
DropIndex ==
    /\ pc = "returned"
    /\ redis_index' = NoIndex
    /\ pc' = "create"
    /\ UNCHANGED <<worldVars, ingestVars, vector_store, _session_store, inbox,
                   running, arrived, uuids, succeeded>>

\* a changed build: no except clause around drop_index
DropIndexFailsAborts ==
    /\ pc = "returned"
    /\ pc' = "crashed"
    /\ UNCHANGED <<worldVars, ingestVars, serverVars>>

\* lines 134-135: drop_index raises; the exception is printed and dropped
DropIndexFails ==
    /\ pc = "returned"
    /\ pc' = "create"
    /\ UNCHANGED <<worldVars, ingestVars, serverVars>>

\* a changed build: the index is created and the application defined at
\* once, the documents being left for a background job to add
CreateIndexThenServe ==
    /\ pc = "create"
    /\ redis_index' = IF redis_index = NoIndex THEN <<>> ELSE redis_index
    /\ vector_store' = "RedisVectorStore"
    /\ pc' = "serving"
    /\ UNCHANGED <<worldVars, ingestVars, _session_store, inbox, running, arrived, uuids,
                   succeeded>>

\* lines 137-143: from_documents first creates the index if there is none
CreateIndex ==
    /\ pc = "create"
    /\ redis_index' = IF redis_index = NoIndex THEN <<>> ELSE redis_index
    /\ pc' = "add_documents"
    /\ UNCHANGED <<worldVars, ingestVars, vector_store, _session_store, inbox, running,
                   arrived, uuids, succeeded>>

\* lines 137-150: from_documents embeds and stores the documents and returns;
\* the module goes on to define the retriever and the application
AddDocuments ==
    /\ pc = "add_documents"
    /\ redis_index' = redis_index \o all_docs
    /\ vector_store' = "RedisVectorStore"
    /\ pc' = "serving"
    /\ UNCHANGED <<worldVars, ingestVars, _session_store, inbox, running, arrived, uuids,
                   succeeded>>

\* lines 137-143: from_documents raises, at the creation or while it stores
\* the documents: the import fails, the application is never defined
CreateIndexFails ==
    /\ pc \in {"create", "add_documents"}
    /\ pc' = "crashed"
    /\ UNCHANGED <<worldVars, ingestVars, serverVars>>

(***************************************************************************)
(* POST /api/chat                                                          *)
(***************************************************************************)
\* what a client may send as message
UserMessages == {"What am I working on?", "Tell me more"}

\* what the model may answer
Answers == {"Future-Aziz: shipping"}

\* session ids a client may make up; it may also send back one it was given
ClientSessionIds == {"", "s1"}

\* the value of str(uuid.uuid4()) when n identifiers were drawn before: a
\* new one each time, and none a client sent before it was drawn
Uuid4(n) == "uuid-" \o ToString(n + 1)

DrawnUuids == {Uuid4(n) : n \in 0..(uuids - 1)}

\* retriever = vector_store.as_retriever(search_kwargs={"k": 8})
TopK == 8

\* the similarity search: at most k of the stored documents, in the
\* backend's order of relevance
RECURSIVE DistinctSeqs(_, _)
DistinctSeqs(S, n) ==
    IF n = 0 \/ S = {} THEN {<<>>}
    ELSE {<<>>} \cup UNION {{<<d>> \o t : t \in DistinctSeqs(S \ {d}, n - 1)} : d \in S}

Retrievals(index) ==
    DistinctSeqs({index[i] : i \in 1..Len(index)}, TopK)

\* a changed resolution: only a missing session_id is replaced
ResolveSessionIdIfNone(session_id, fresh) ==
    IF session_id = None THEN fresh ELSE session_id

\* line 238: session_id = req.session_id or str(uuid.uuid4())
ResolveSessionId(session_id, fresh) ==
    IF session_id = None \/ session_id = "" THEN fresh ELSE session_id

\* a changed lookup: the test of line 209 left out, a new history each time
get_session_history_always_new(store, sid) ==
    [k \in DOMAIN store \cup {sid} |-> IF k = sid THEN <<>> ELSE store[k]]

\* lines 208-211: get_session_history, as its effect on _session_store
get_session_history(store, sid) ==
    IF sid \in DOMAIN store
    THEN store
    ELSE [k \in DOMAIN store \cup {sid} |-> IF k = sid THEN <<>> ELSE store[k]]

HumanMessage(content) == [type |-> "human", content |-> content]

AIMessage(content) == [type |-> "ai", content |-> content]

\* a changed append: the answer is stored before the message
AddTurnAnswerFirst(store, sid, message, answer) ==
    [store EXCEPT ![sid] = Append(Append(@, AIMessage(answer)), HumanMessage(message))]

\* a changed append: one history object shared by all the sessions
AddTurnToAll(store, sid, message, answer) ==
    [k \in DOMAIN store |->
        Append(Append(store[k], HumanMessage(message)), AIMessage(answer))]

\* a changed append: the turn is written to a history made for the call,
\* which takes the place of the stored one
AddTurnToFreshHistory(store, sid, message, answer) ==
    [store EXCEPT ![sid] = <<HumanMessage(message), AIMessage(answer)>>]

\* lines 259-260: history.add_user_message(req.message); history.add_ai_message(answer)
AddTurn(store, sid, message, answer) ==
    [store EXCEPT ![sid] = Append(Append(@, HumanMessage(message)), AIMessage(answer))]

\* the configured persona (lines 35-36, at their defaults)
FUTURE_ME_NAME == "Aziz"

FUTURE_ME_YEARS_AHEAD == 1

\* lines 159-177, the job description shortened
system_prompt ==
    "You are a simulated FUTURE VERSION of " \o FUTURE_ME_NAME \o ", exactly "
       \o ToString(FUTURE_ME_YEARS_AHEAD) \o " year(s) from now. ALWAYS preface your answer with: "
       \o "\"Future-" \o FUTURE_ME_NAME \o ":\"."

SystemMessage(content) == [type |-> "system", content |-> content]

\* the parts of a template string: literal text, or a {variable}
Text(t) == [kind |-> "text", value |-> t]

Var(name) == [kind |-> "var", value |-> name]

\* a changed template: the history placeholder comes after the user message
promptHistoryLast ==
    << [role |-> "system", template |-> <<Text(system_prompt)>>],
       [role |-> "system",
        template |-> <<Text("Here are some relevant snippets from my past GitHub activity:\n"),
                       Var("context")>>],
       [role |-> "human", template |-> <<Var("input")>>],
       [role |-> "placeholder", template |-> <<Var("chat_history")>>] >>

\* lines 179-189: ChatPromptTemplate.from_messages([...])
prompt ==
    << [role |-> "system", template |-> <<Text(system_prompt)>>],
       [role |-> "placeholder", template |-> <<Var("chat_history")>>],
       [role |-> "system",
        template |-> <<Text("Here are some relevant snippets from my past GitHub activity:\n"),
                       Var("context")>>],
       [role |-> "human", template |-> <<Var("input")>>] >>

\* the text of a template with its variables replaced by their values
RECURSIVE FormatTemplate(_, _)
FormatTemplate(template, kwargs) ==
    IF template = <<>> THEN ""
    ELSE (IF Head(template).kind = "text" THEN Head(template).value
          ELSE kwargs[Head(template).value]) \o FormatTemplate(Tail(template), kwargs)

\* prompt.format_prompt(**kwargs).to_messages(): one message for each
\* (role, template) entry, the messages of the variable for a placeholder
RECURSIVE FormatPrompt(_, _)
FormatPrompt(entries, kwargs) ==
    IF entries = <<>> THEN <<>>
    ELSE (IF Head(entries).role = "placeholder"
          THEN kwargs[Head(entries).template[1].value]
          ELSE <<[type |-> Head(entries).role,
                  content |-> FormatTemplate(Head(entries).template, kwargs)]>>)
         \o FormatPrompt(Tail(entries), kwargs)

\* "".join(chars)
RECURSIVE Join(_)
Join(chars) == IF chars = <<>> THEN "" ELSE Head(chars) \o Join(Tail(chars))

\* dict.get(key, default) on the metadata of a document
Get(d, key, default) == IF key \in DOMAIN d THEN d[key] ELSE default

\* s[:k]
Slice(s, k) == SubSeq(s, 1, IF k <= Len(s) THEN k ELSE Len(s))

\* lines 196-200: one chunk of the context.  In an f-string a value that is
\* None is written as the text None, which is what the value None is here.
Chunk(d) ==
    LET repo == Get(d, "repo", "unknown-repo")
        date == Get(d, "date", "")
        sha == Slice(Get(d, "sha", <<>>), 7)
        prefix == Strip(<<"[", repo, " ", "@", " ", date, " ">> \o sha \o <<"]">>)
    IN  Join(prefix) \o "\n" \o Join(d.page_content)

\* lines 192-201: "\n\n".join(chunks)
RECURSIVE format_context(_)
format_context(docs) ==
    IF docs = <<>> THEN ""
    ELSE IF Len(docs) = 1 THEN Chunk(docs[1])
    ELSE Chunk(docs[1]) \o "\n\n" \o format_context(Tail(docs))

\* the record of the calls that returned, kept for the properties
Logged(log, sid, call) ==
    [k \in DOMAIN log \cup {sid} |->
        IF k = sid THEN (IF sid \in DOMAIN log THEN log[sid] ELSE <<>>) \o <<call>>
        ELSE log[k]]

\* a request reaches the server
Arrive(message, session_id) ==
    /\ pc = "serving"
    /\ arrived < MaxCalls
    /\ arrived' = arrived + 1
    /\ inbox' = Append(inbox, [message |-> message, session_id |-> session_id])
    /\ UNCHANGED <<worldVars, pc, ingestVars, redis_index, vector_store,
                   _session_store, running, uuids, succeeded>>

\* lines 236-241: the handler starts on the event loop, which runs nothing
\* else until the handler returns or raises (the handler never awaits)
ChatBegin ==
    /\ pc = "serving"
    /\ running = Idle
    /\ inbox # <<>>
    /\ LET req == Head(inbox)
           sid == ResolveSessionId(req.session_id, Uuid4(uuids))
       IN  /\ uuids' = IF sid = req.session_id THEN uuids ELSE uuids + 1
           /\ _session_store' = get_session_history(_session_store, sid)
           /\ running' = [stage |-> "retrieve",
                          request |-> req,
                          session_id |-> sid,
                          was_key |-> sid \in DOMAIN _session_store,
                          store_before |-> _session_store,
                          docs |-> <<>>,
                          prompt_messages |-> <<>>,
                          answer |-> None,
                          error |-> None]
    /\ inbox' = Tail(inbox)
    /\ UNCHANGED <<worldVars, pc, ingestVars, redis_index, vector_store, arrived,
                   succeeded>>

\* lines 244-252: retriever.invoke returns, the context is formatted and the
\* prompt is built from the history as it is now
ChatRetrieve ==
    /\ running.stage = "retrieve"
    /\ \E docs \in Retrievals(redis_index) :
          running' = [running EXCEPT
                         !.stage = "invoke",
                         !.docs = docs,
                         !.prompt_messages =
                             FormatPrompt(prompt,
                                          [input |-> running.request.message,
                                           chat_history |-> _session_store[running.session_id],
                                           context |-> format_context(docs)])]
    /\ UNCHANGED <<worldVars, pc, ingestVars, redis_index, vector_store,
                   _session_store, inbox, arrived, uuids, succeeded>>

\* a changed handler: when the retrieval raises, the store is put back as
\* it was when the call began
ChatRetrieveRaisesAndUnregisters ==
    /\ running.stage = "retrieve"
    /\ running' = [running EXCEPT !.stage = "raised", !.error = "RetrievalError"]
    /\ _session_store' = running.store_before
    /\ UNCHANGED <<worldVars, pc, ingestVars, redis_index, vector_store,
                   inbox, arrived, uuids, succeeded>>

\* line 244: retriever.invoke raises
ChatRetrieveRaises ==
    /\ running.stage = "retrieve"
    /\ running' = [running EXCEPT !.stage = "raised", !.error = "RetrievalError"]
    /\ UNCHANGED <<worldVars, pc, ingestVars, redis_index, vector_store,
                   _session_store, inbox, arrived, uuids, succeeded>>

\* lines 255-256: llm.invoke(prompt_messages) returns
ChatInvoke ==
    /\ running.stage = "invoke"
    /\ \E answer \in Answers :
          running' = [running EXCEPT !.stage = "append", !.answer = answer]
    /\ UNCHANGED <<worldVars, pc, ingestVars, redis_index, vector_store,
                   _session_store, inbox, arrived, uuids, succeeded>>

\* a changed handler: the user turn is stored before the model is called
ChatInvokeRaisesAfterUserTurn ==
    /\ running.stage = "invoke"
    /\ running' = [running EXCEPT !.stage = "raised", !.error = "ModelInvocationError"]
    /\ _session_store' = [_session_store EXCEPT ![running.session_id] =
                            Append(@, HumanMessage(running.request.message))]
    /\ UNCHANGED <<worldVars, pc, ingestVars, redis_index, vector_store,
                   inbox, arrived, uuids, succeeded>>

\* line 255: llm.invoke raises
ChatInvokeRaises ==
    /\ running.stage = "invoke"
    /\ running' = [running EXCEPT !.stage = "raised", !.error = "ModelInvocationError"]
    /\ UNCHANGED <<worldVars, pc, ingestVars, redis_index, vector_store,
                   _session_store, inbox, arrived, uuids, succeeded>>

\* lines 259-260
ChatAppend ==
    /\ running.stage = "append"
    /\ _session_store' = AddTurn(_session_store, running.session_id,
                                running.request.message, running.answer)
    /\ running' = [running EXCEPT !.stage = "return"]
    /\ UNCHANGED <<worldVars, pc, ingestVars, redis_index, vector_store,
                   inbox, arrived, uuids, succeeded>>

\* line 263 returns the response, or the exception reaches the framework,
\* which answers this request with an error; the event loop is free again
ChatEnd ==
    /\ running.stage \in {"return", "raised"}
    /\ running' = Idle
    /\ succeeded' = IF running.stage = "return"
                    THEN Logged(succeeded, running.session_id,
                                <<running.request.message, running.answer>>)
                    ELSE succeeded
    /\ UNCHANGED <<worldVars, pc, ingestVars, redis_index, vector_store,
                   _session_store, inbox, arrived, uuids>>

\* ChatResponse(reply=answer, session_id=session_id)
ChatResponse(call) == [reply |-> call.answer, session_id |-> call.session_id]

Next ==
    \/ NextIngest
    \/ DropIndex
    \/ DropIndexFails
    \/ CreateIndex
    \/ AddDocuments
    \/ CreateIndexFails
    \/ \E m \in UserMessages, sid \in {None} \cup ClientSessionIds \cup DrawnUuids :
          Arrive(m, sid)
    \/ ChatBegin
    \/ ChatRetrieve
    \/ ChatRetrieveRaises
    \/ ChatInvoke
    \/ ChatInvokeRaises
    \/ ChatAppend
    \/ ChatEnd

\* what the index may hold when the process starts: nothing, a document of
\* an earlier run, or a document another writer stored without metadata
LeftInIndex == {NoIndex, <<Document("old", 1, <<"a">>)>>, <<[page_content |-> <<"a">>]>>}

\* the process from its start, with one provider and whatever was left in
\* the index
Init ==
    /\ updated_at = [r \in Repos |-> IF r = "A" THEN 1 ELSE 2]
    /\ repo_commits = [r \in Repos |-> IF r = "A" THEN << <<" ", "a">>, NoMessage >>
                                                  ELSE << <<" ", "a">> >>]
    /\ max_global_commits = 1
    /\ pc = "fetch"
    /\ repos = <<>>
    /\ ri = 0
    /\ ci = 0
    /\ all_docs = <<>>
    /\ total_commits_collected = 0
    /\ fetch_error = [r \in Repos |-> "none"]
    /\ fail_at = [r \in Repos |-> -1]
    /\ redis_index \in LeftInIndex
    /\ vector_store = None
    /\ _session_store = <<>>
    /\ inbox = <<>>
    /\ running = Idle
    /\ arrived = 0
    /\ uuids = 0
    /\ succeeded = <<>>

Spec == Init /\ [][Next]_vars


(***************************************************************************)
(* Ingestion: what the properties speak of.                                *)
(***************************************************************************)
\* a record whose message is missing, empty or only whitespace
IsBlank(message) ==
    \/ message = NoMessage
    \/ \A i \in 1..Len(message) : message[i] \in Whitespace

\* the positions of the records of r that have content
ContentRecords(r) == {i \in 1..Len(repo_commits[r]) : ~IsBlank(repo_commits[r][i])}

\* the position, in its repository, of the record a document was made from
PositionOf(doc) ==
    CHOOSE i \in 1..Len(repo_commits[doc.repo]) : Sha(doc.repo, i) = doc.sha

\* the positions, in r, of the units that all_docs holds for r
UnitsOf(r) == {PositionOf(all_docs[k]) : k \in {j \in 1..Len(all_docs) : all_docs[j].repo = r}}

\* the units of r in the provider's order, from position i on
RECURSIVE RepoUnits(_, _)
RepoUnits(r, i) ==
    IF i > Len(repo_commits[r]) THEN <<>>
    ELSE (IF IsBlank(repo_commits[r][i]) THEN <<>>
          ELSE <<Document(r, i, CommitText(repo_commits[r][i]))>>) \o RepoUnits(r, i + 1)

RECURSIVE ConcatUnits(_)
ConcatUnits(order) ==
    IF order = <<>> THEN <<>> ELSE RepoUnits(Head(order), 1) \o ConcatUnits(Tail(order))

Take(s, k) == IF k <= 0 THEN <<>> ELSE SubSeq(s, 1, Min(k, Len(s)))

Orders == {o \in [1..Cardinality(Repos) -> Repos] : \A i, j \in DOMAIN o : i # j => o[i] # o[j]}

Descending(o) == \A i, j \in DOMAIN o : i < j => updated_at[o[i]] >= updated_at[o[j]]

NoFailure == \A r \in Repos : fetch_error[r] = "none"

TotalAvailable == Len(ConcatUnits(ListedRepos))

(***************************************************************************)
(* C1. Global cap: in every state of fetch_all_repos_commits, and so in    *)
(* what it returns, the units collected are at most max_global_commits     *)
(* (a cap is a number of units: the property is stated for caps >= 0),     *)
(* whatever the collections, their records, the empty records among them   *)
(* and the collections whose fetch fails.                                  *)
(***************************************************************************)
C1_GlobalCap ==
    max_global_commits >= 0 => Len(all_docs) <= max_global_commits

\* the cap is met with records left over, after a failing collection and an
\* empty record
C1_Witness ==
    /\ pc = "returned"
    /\ max_global_commits = 2
    /\ Len(all_docs) = 2
    /\ \E r \in Repos : fetch_error[r] = "github"
    /\ \E r \in Repos : UnitsOf(r) # {} /\ ContentRecords(r) \ UnitsOf(r) # {}
    /\ \E r \in Repos : \E i \in 1..Len(repo_commits[r]) :
          IsBlank(repo_commits[r][i]) /\ \E j \in UnitsOf(r) : j > i

(***************************************************************************)
(* C6. Skip-on-error.  As claimed: whatever a collection's fetch raises,   *)
(* ingestion does not abort.                                               *)
(***************************************************************************)
C6_AnyFailureIsSkipped ==
    (\E r \in Repos : fetch_error[r] # "none") => pc # "crashed"

(***************************************************************************)
(* C6, amended.  A fetch that raises GithubException does not abort        *)
(* ingestion: the run aborts only on an exception of another kind, it can  *)
(* always take a step until it has returned, and when it returns every     *)
(* collection that comes after a failed one and did not fail itself has    *)
(* all its units in the result, unless the cap was reached.                *)
(***************************************************************************)
C6_GithubFailureIsSkipped ==
    /\ pc = "crashed" => \E r \in Repos : fetch_error[r] = "other"
    /\ pc \in {"fetch", "for_repo", "for_commit", "return"} => ENABLED NextIngest
    /\ pc = "returned" =>
          \A i, j \in 1..Len(repos) :
             (i < j /\ fetch_error[repos[i]] = "github" /\ fetch_error[repos[j]] = "none")
                => \/ UnitsOf(repos[j]) = ContentRecords(repos[j])
                   \/ Len(all_docs) >= max_global_commits

\* the first collection failed and the run returned with units of the second
C6_Witness ==
    /\ pc = "returned"
    /\ fetch_error[repos[1]] = "github"
    /\ fetch_error[repos[2]] = "none"
    /\ UnitsOf(repos[2]) # {}
    /\ UnitsOf(repos[2]) = ContentRecords(repos[2])

(***************************************************************************)
(* C7. As claimed: the result holds no unit of a collection whose fetch    *)
(* failed, at whatever point it failed.                                    *)
(***************************************************************************)
C7_FailedRepoHasNoUnit ==
    pc = "returned" => \A r \in Repos : fetch_error[r] # "none" => UnitsOf(r) = {}

(***************************************************************************)
(* C7, amended.  Of a collection whose fetch raised GithubException the    *)
(* result holds exactly the units of the records taken before the failure: *)
(* none when the fetch failed on its first access, and then the collection *)
(* used none of the budget; the counter counts exactly the units kept.     *)
(***************************************************************************)
C7_FailedRepoKeepsEarlierUnits ==
    /\ \A r \in Repos :
          fetch_error[r] = "github" =>
             /\ UnitsOf(r) = {i \in ContentRecords(r) : i <= fail_at[r]}
             /\ fail_at[r] = 0 => UnitsOf(r) = {}
    /\ total_commits_collected = Len(all_docs)

\* one collection failed on its first access, the other part-way with a unit kept
C7_Witness ==
    /\ pc = "returned"
    /\ \E r, q \in Repos :
          /\ fetch_error[r] = "github" /\ fail_at[r] = 0 /\ ContentRecords(r) # {}
          /\ fetch_error[q] = "github" /\ fail_at[q] = 1 /\ UnitsOf(q) = {1}
          /\ Len(repo_commits[q]) = 2

(***************************************************************************)
(* C8. Recency order: when no fetch fails, the result is the first         *)
(* min(cap, total) units of the collections taken in a descending order of *)
(* update time, each with its units in the provider's order; no unit of an *)
(* older collection comes before a unit of a more recently updated one.    *)
(***************************************************************************)
C8_RecencyOrder ==
    (pc = "returned" /\ NoFailure) =>
       /\ \E o \in Orders :
             /\ Descending(o)
             /\ all_docs = Take(ConcatUnits(o), Min(max_global_commits, TotalAvailable))
       /\ \A i, j \in 1..Len(all_docs) :
             i < j => updated_at[all_docs[i].repo] >= updated_at[all_docs[j].repo]

\* the cap is below the total and is filled by the newer collection alone,
\* which the provider listed last
C8_Witness ==
    /\ pc = "returned"
    /\ NoFailure
    /\ updated_at[ListedRepos[1]] < updated_at[ListedRepos[2]]
    /\ max_global_commits = 2
    /\ TotalAvailable > 2
    /\ ContentRecords(ListedRepos[1]) # {}
    /\ Len(all_docs) = 2
    /\ \A k \in 1..Len(all_docs) : all_docs[k].repo = ListedRepos[2] /\ PositionOf(all_docs[k]) = k

(***************************************************************************)
(* C9. Empty-content filtering: the text of every unit is non-empty after  *)
(* trimming, and the record it was made from has a message that is neither *)
(* missing, empty nor only whitespace.                                     *)
(***************************************************************************)
C9_NoEmptyUnit ==
    \A k \in 1..Len(all_docs) :
       /\ Strip(all_docs[k].page_content) # <<>>
       /\ ~IsBlank(repo_commits[all_docs[k].repo][PositionOf(all_docs[k])])

\* a missing, an empty and a whitespace-only message were all passed over,
\* and a unit was made of a record that follows one of them
C9_Witness ==
    /\ pc = "returned"
    /\ NoFailure
    /\ \E r, q \in Repos :
          /\ r # q
          /\ repo_commits[r] = <<NoMessage, <<" ", "a">> >>
          /\ repo_commits[q] \in { << <<>>, <<" ">> >>, << <<" ">>, <<>> >> }
          /\ UnitsOf(r) = {2}
          /\ UnitsOf(q) = {}
    /\ Len(all_docs) = 1


(***************************************************************************)
(* Chat: what the properties speak of.                                     *)
(***************************************************************************)
\* the turns of session s in a store; a session the store does not know has none
HistIn(store, s) == IF s \in DOMAIN store THEN store[s] ELSE <<>>

\* the calls on session s that returned, in the order they returned
CallsOf(s) == IF s \in DOMAIN succeeded THEN succeeded[s] ELSE <<>>

InFlight == running.stage # "idle"

(***************************************************************************)
(* C2. No partial commit on failure: when the retrieval or the model call  *)
(* of a chat turn raises, the history of the call's session is what it was *)
(* before the call: same length, same turns, no user turn left behind.     *)
(***************************************************************************)
C2_NoPartialCommit ==
    running.stage = "raised" =>
       HistIn(_session_store, running.session_id)
          = HistIn(running.store_before, running.session_id)

\* the model call failed on a session that already had a turn
C2_Witness ==
    /\ running.stage = "raised"
    /\ running.error = "ModelInvocationError"
    /\ Len(HistIn(_session_store, running.session_id)) = 2

(***************************************************************************)
(* C3. Session continuity: when no call is running, the history of a       *)
(* session on which n calls returned has exactly 2n turns: the message and *)
(* the answer of each call, in the order of the calls.                     *)
(***************************************************************************)
C3_SessionContinuity ==
    ~InFlight =>
       \A s \in DOMAIN _session_store :
          LET n == Len(CallsOf(s))
          IN  /\ Len(_session_store[s]) = 2 * n
              /\ \A i \in 1..n :
                    /\ _session_store[s][2 * i - 1] = HumanMessage(CallsOf(s)[i][1])
                    /\ _session_store[s][2 * i] = AIMessage(CallsOf(s)[i][2])

\* two calls returned on one session, with different messages, and a third
\* call failed
C3_Witness ==
    /\ ~InFlight
    /\ arrived = 3
    /\ inbox = <<>>
    /\ \E s \in DOMAIN _session_store :
          /\ Len(_session_store[s]) = 4
          /\ _session_store[s][1].content = "What am I working on?"
          /\ _session_store[s][3].content = "Tell me more"
    /\ \A s \in DOMAIN _session_store : Len(_session_store[s]) \in {0, 4}

(***************************************************************************)
(* C4. Session isolation: a step of a chat call for session s, whether the *)
(* call goes on to return or to raise, leaves the history of every other   *)
(* session as it was, adds no key but s to the store and leaves the index  *)
(* as it was.                                                              *)
(***************************************************************************)
C4_SessionIsolation ==
    [][ (pc = "serving" /\ (InFlight \/ running'.stage # "idle")) =>
           LET s == IF running'.stage # "idle" THEN running'.session_id
                    ELSE running.session_id
           IN  /\ \A t \in DOMAIN _session_store \ {s} :
                     /\ t \in DOMAIN _session_store'
                     /\ _session_store'[t] = _session_store[t]
               /\ DOMAIN _session_store' \subseteq DOMAIN _session_store \cup {s}
               /\ redis_index' = redis_index ]_vars

\* a call has just appended, or raised, while another session holds turns
C4_Witness ==
    /\ running.stage \in {"return", "raised"}
    /\ Len(HistIn(_session_store, running.session_id)) \in {0, 2}
    /\ \E t \in DOMAIN _session_store :
          t # running.session_id /\ Len(_session_store[t]) = 2
    /\ Len(redis_index) >= 1

(***************************************************************************)
(* C5. As claimed: a session_id that is a string, whatever the string, is  *)
(* the session id of the call; only a missing one is replaced, by an       *)
(* identifier that is no key of the store.                                 *)
(***************************************************************************)
C5_AnyStringIsKept ==
    InFlight =>
       /\ running.request.session_id # None =>
             running.session_id = running.request.session_id
       /\ running.request.session_id = None => ~running.was_key

(***************************************************************************)
(* C5, amended.  A session_id that is a non-empty string is the session id *)
(* of the call and is returned unchanged in the response; a missing one    *)
(* and the empty string are both replaced by a generated identifier, which *)
(* was no key of the store when the call began.                            *)
(***************************************************************************)
C5_SessionIdResolution ==
    InFlight =>
       LET given == running.request.session_id
           sid == running.session_id
       IN  /\ given \notin {None, ""} => sid = given
           /\ given \in {None, ""} =>
                 /\ sid \in DrawnUuids
                 /\ sid # given
                 /\ ~running.was_key
           /\ running.stage = "return" =>
                 ChatResponse(running) = [reply |-> running.answer, session_id |-> sid]

\* a call with the empty string returns under a generated identifier while
\* the store holds another session
C5_Witness ==
    /\ running.stage = "return"
    /\ running.request.session_id = ""
    /\ running.session_id \in DrawnUuids
    /\ \E t \in DOMAIN _session_store : t # running.session_id

(***************************************************************************)
(* C10. Chat turns for different session ids do not block each other:      *)
(* while a call waits on its retrieval or on the model, a request that is  *)
(* waiting for another session id can start.                               *)
(***************************************************************************)
C10_OtherSessionNotBlocked ==
    ( /\ running.stage \in {"retrieve", "invoke"}
      /\ inbox # <<>>
      /\ ResolveSessionId(Head(inbox).session_id, Uuid4(uuids)) # running.session_id )
       => ENABLED ChatBegin

\* the documents of the build are all in the index, after whatever it held
IndexComplete ==
    /\ redis_index # NoIndex
    /\ Len(redis_index) >= Len(all_docs)
    /\ SubSeq(redis_index, Len(redis_index) - Len(all_docs) + 1, Len(redis_index)) = all_docs

\* a request was received, or is being handled, or left a trace
SomeRequest ==
    \/ arrived > 0
    \/ inbox # <<>>
    \/ InFlight
    \/ DOMAIN _session_store # {}
    \/ DOMAIN succeeded # {}

(***************************************************************************)
(* C11. Startup barrier: a chat request is received and handled only once  *)
(* the build has completed (ingestion returned, the index was created and  *)
(* every collected document was stored in it), so what a retrieval reads   *)
(* is the complete index; and when the build fails the process has stopped *)
(* without ever serving a request.                                         *)
(***************************************************************************)
C11_StartupBarrier ==
    /\ SomeRequest => pc = "serving"
    /\ pc = "serving" => vector_store = "RedisVectorStore" /\ IndexComplete
    /\ running.stage \in {"invoke", "append", "return"} =>
          running.docs \in Retrievals(redis_index)
    /\ pc = "crashed" => ~SomeRequest /\ ~ENABLED Next

\* a retrieval has read the document of this build and one an earlier run
\* left in the index
C11_Witness ==
    /\ running.stage = "invoke"
    /\ Len(all_docs) = 1
    /\ Len(redis_index) = 2
    /\ \E i, j \in 1..Len(running.docs) :
          running.docs[i] = all_docs[1] /\ running.docs[j] = Document("old", 1, <<"a">>)

(***************************************************************************)
(* C12. Budget depletion halts ingestion at once: from a state where the   *)
(* counter has reached the cap, no step converts a record (the result and  *)
(* the counter stay as they are), takes a record from the iterator of the  *)
(* current collection, or opens the records of a later collection; and     *)
(* with a cap of 0 or less no collection's records are ever opened, none   *)
(* of their fetches is attempted and the result is empty.                  *)
(***************************************************************************)
C12_DepletionHalts ==
    /\ [](max_global_commits <= 0 =>
             /\ pc # "for_commit"
             /\ ci = 0
             /\ all_docs = <<>>
             /\ \A r \in Repos : fail_at[r] = -1)
    /\ [][ CapReached(total_commits_collected, max_global_commits) =>
              /\ all_docs' = all_docs
              /\ total_commits_collected' = total_commits_collected
              /\ ci' = ci
              /\ pc' # "for_commit" ]_vars

\* the cap was reached inside the first collection, which has another record
\* with content, and the second collection, which has content too, gave nothing
C12_Witness ==
    /\ pc = "returned"
    /\ NoFailure
    /\ max_global_commits = 1
    /\ total_commits_collected = 1
    /\ ContentRecords(repos[1]) = {1, 2}
    /\ UnitsOf(repos[1]) = {1}
    /\ ContentRecords(repos[2]) # {}
    /\ UnitsOf(repos[2]) = {}
    /\ ci = 1

\* the calls on session s that have appended their turn, in the order they
\* appended: those that returned, then the running one if it has appended
AppendedOn(s) ==
    CallsOf(s) \o (IF running.stage = "return" /\ running.session_id = s
                   THEN << <<running.request.message, running.answer>> >>
                   ELSE <<>>)

(***************************************************************************)
(* C13. Requests on one session id that overlap (one is received while the *)
(* other is handled) never interleave their appends: in every state every  *)
(* history is, call after call in the order the calls appended, the user   *)
(* turn of a call followed at once by the assistant turn of the same call; *)
(* no turn of another call lies between the two and no call that appended  *)
(* is missing.                                                             *)
(***************************************************************************)
C13_NoInterleavedAppends ==
    \A s \in DOMAIN _session_store :
       LET calls == AppendedOn(s)
       IN  /\ Len(_session_store[s]) = 2 * Len(calls)
           /\ \A i \in 1..Len(calls) :
                 /\ _session_store[s][2 * i - 1] = HumanMessage(calls[i][1])
                 /\ _session_store[s][2 * i] = AIMessage(calls[i][2])

\* a call has appended to a session that holds the turn of an earlier call,
\* while a third request for the same session is waiting
C13_Witness ==
    /\ running.stage = "return"
    /\ Len(_session_store[running.session_id]) = 4
    /\ _session_store[running.session_id][1].content # running.request.message
    /\ inbox # <<>>
    /\ Head(inbox).session_id = running.session_id

\* the calls whose prompt has been built and handed to the model
PromptSent ==
    \/ running.stage \in {"invoke", "append", "return"}
    \/ running.stage = "raised" /\ running.error = "ModelInvocationError"

(***************************************************************************)
(* C14. Prompt assembly order: the messages sent to the model for a chat   *)
(* turn are the persona system instruction, then the turns the session     *)
(* held before this call, in stored order, then one system message that    *)
(* carries the formatted context of the retrieved documents, then the new  *)
(* user message; nothing else, and the new user message is added once, in  *)
(* the last place.                                                         *)
(***************************************************************************)
C14_PromptOrder ==
    PromptSent =>
       LET p == running.prompt_messages
           h == HistIn(running.store_before, running.session_id)
           n == Len(h)
           new == HumanMessage(running.request.message)
       IN  /\ Len(p) = n + 3
           /\ p[1] = SystemMessage(system_prompt)
           /\ SubSeq(p, 2, n + 1) = h
           /\ p[n + 2] = SystemMessage(
                 "Here are some relevant snippets from my past GitHub activity:\n"
                    \o format_context(running.docs))
           /\ p[n + 3] = new
           /\ {i \in {1, n + 2, n + 3} : p[i] = new} = {n + 3}

\* the prompt of a call on a session that holds an earlier turn with another
\* message, built with two retrieved documents
C14_Witness ==
    /\ running.stage = "invoke"
    /\ Len(running.prompt_messages) = 5
    /\ running.prompt_messages[2].content # running.request.message
    /\ Len(running.docs) = 2

\* a chunk as the claim has it: a field that is absent, or a date that is
\* None, is written as the empty string
ChunkWithEmptyForMissing(d) ==
    LET repo == IF "repo" \in DOMAIN d THEN d.repo ELSE ""
        date == IF "date" \in DOMAIN d /\ d.date # None THEN d.date ELSE ""
        sha == IF "sha" \in DOMAIN d THEN Slice(d.sha, 7) ELSE <<>>
    IN  Join(Strip(<<"[", repo, " ", "@", " ", date, " ">> \o sha \o <<"]">>))
           \o "\n" \o Join(d.page_content)

RECURSIVE ContextWithEmptyForMissing(_)
ContextWithEmptyForMissing(docs) ==
    IF docs = <<>> THEN ""
    ELSE IF Len(docs) = 1 THEN ChunkWithEmptyForMissing(docs[1])
    ELSE ChunkWithEmptyForMissing(docs[1]) \o "\n\n" \o ContextWithEmptyForMissing(Tail(docs))

(***************************************************************************)
(* C15. Context formatting tolerates missing optional fields: whatever     *)
(* documents a retrieval returns, among them a document made by ingestion  *)
(* from a record with no author (its date is None) and a document with no  *)
(* repo, date or sha at all, format_context returns (the prompt is built)  *)
(* and the context in the prompt shows every missing field as the empty    *)
(* string.                                                                 *)
(***************************************************************************)
C15_MissingFieldsRenderEmpty ==
    running.stage = "invoke" =>
       running.prompt_messages[Len(running.prompt_messages) - 1].content
          = "Here are some relevant snippets from my past GitHub activity:\n"
               \o ContextWithEmptyForMissing(running.docs)

(***************************************************************************)
(* C16. Index rebuild tolerates a failed drop: the step after ingestion,   *)
(* whether drop_index succeeds or raises, always leads to the creation;    *)
(* the creation can then take place whatever the drop left in the index,   *)
(* and when it completes the index holds every collected document; the     *)
(* build is abandoned only from the creation (or, before the drop, from    *)
(* ingestion), never from the drop.                                        *)
(***************************************************************************)
C16_FailedDropIsTolerated ==
    /\ [](pc = "create" => ENABLED CreateIndex)
    /\ [](pc = "add_documents" => ENABLED AddDocuments)
    /\ [](pc = "serving" => IndexComplete)
    /\ [][pc = "returned" => pc' = "create"]_vars
    /\ [][pc' = "crashed" => pc \in {"for_commit", "create", "add_documents"}]_vars

\* the drop failed, the document of the earlier run is still there, and the
\* index was created with the collected document after it
C16_Witness ==
    /\ pc = "serving"
    /\ Len(all_docs) = 1
    /\ redis_index = <<Document("old", 1, <<"a">>)>> \o all_docs
    /\ arrived = 0

\* the records with content of the collections in S, as (collection, position)
ContentIn(S) == UNION {{<<r, i>> : i \in ContentRecords(r)} : r \in S}

\* every fetch that failed raised GithubException on the first access
OnlyFirstAccessFailures ==
    \A r \in Repos : fetch_error[r] # "none" => fetch_error[r] = "github" /\ fail_at[r] = 0

(***************************************************************************)
(* C17. In every state of the ingestion loop the counter equals the number *)
(* of units collected so far.  The counter moves only by one, in the step  *)
(* that appends the unit of a record with content: a step that passes over *)
(* an empty record, or leaves a collection whose fetch raised, leaves the  *)
(* counter as it was.  So, for a cap that is not negative, the result has  *)
(* min(cap, n) units, n being the records with content of the collections  *)
(* whose fetch did not fail on its first access, when no fetch failed      *)
(* later than that; with no failure at all n is every record with content. *)
(***************************************************************************)
C17_CounterCountsUnits ==
    /\ [](total_commits_collected = Len(all_docs))
    /\ [](Len(all_docs) = Cardinality(UNION {{<<r, i>> : i \in UnitsOf(r)} : r \in Repos}))
    /\ [][ total_commits_collected' # total_commits_collected =>
              /\ pc = "for_commit"
              /\ ci' = ci + 1
              /\ ~IsBlank(repo_commits[repos[ri]][ci'])
              /\ total_commits_collected' = total_commits_collected + 1
              /\ all_docs' = Append(all_docs,
                                    Document(repos[ri], ci',
                                             CommitText(repo_commits[repos[ri]][ci']))) ]_vars
    /\ []((pc = "returned" /\ max_global_commits >= 0 /\ OnlyFirstAccessFailures) =>
             Len(all_docs) = Min(max_global_commits,
                                 Cardinality(ContentIn({r \in Repos : fetch_error[r] = "none"}))))
    /\ []((pc = "returned" /\ max_global_commits >= 0 /\ NoFailure) =>
             Len(all_docs) = Min(max_global_commits, Cardinality(ContentIn(Repos))))

\* one collection with content failed on its first access; the other gave
\* one unit after an empty record, and the cap of two was not reached
C17_Witness ==
    /\ pc = "returned"
    /\ max_global_commits = 2
    /\ total_commits_collected = 1
    /\ \E r, q \in Repos :
          /\ fetch_error[r] = "github" /\ fail_at[r] = 0 /\ ContentRecords(r) # {}
          /\ fetch_error[q] = "none"
          /\ IsBlank(repo_commits[q][1])
          /\ UnitsOf(q) = {2}

(***************************************************************************)
(* C18. After any sequence of chat requests, returned or failed, on any    *)
(* session ids, every history in the store has an even number of turns,    *)
(* a user turn in every odd place and an assistant turn in every even      *)
(* place; and every history is append-only: no step removes a history or   *)
(* changes a turn it holds, so what a history holds at one time is a       *)
(* prefix of what it holds at any later time.                              *)
(***************************************************************************)
C18_AlternatingAppendOnly ==
    /\ [](\A s \in DOMAIN _session_store :
             /\ Len(_session_store[s]) % 2 = 0
             /\ \A i \in 1..Len(_session_store[s]) :
                   _session_store[s][i].type = (IF i % 2 = 1 THEN "human" ELSE "ai"))
    /\ [][ \A s \in DOMAIN _session_store :
              /\ s \in DOMAIN _session_store'
              /\ Len(_session_store'[s]) >= Len(_session_store[s])
              /\ SubSeq(_session_store'[s], 1, Len(_session_store[s])) = _session_store[s] ]_vars

\* a call failed on a session that holds the turn of an earlier call, while
\* another session holds a turn too
C18_Witness ==
    /\ running.stage = "raised"
    /\ running.was_key
    /\ Len(_session_store[running.session_id]) = 2
    /\ \E t \in DOMAIN _session_store :
          t # running.session_id /\ Len(_session_store[t]) = 2
    /\ inbox = <<>>

(***************************************************************************)
(* C19. The key set of the store only grows, and a session id is a key     *)
(* exactly when a chat call has referenced it: the store is empty until    *)
(* the first call, a step adds a key only when a call begins, and then the *)
(* one key it adds, if it is new, is the session id of that call; a call   *)
(* that fails at the retrieval or at the model on an id the store did not  *)
(* know leaves an empty history under that id, so the store is not what it *)
(* was before the call although no turn was added.                         *)
(***************************************************************************)
C19_KeysAreReferencedIds ==
    /\ [](arrived = 0 => DOMAIN _session_store = {})
    /\ [](InFlight => running.session_id \in DOMAIN _session_store)
    /\ [](DOMAIN succeeded \subseteq DOMAIN _session_store)
    /\ []((running.stage = "raised" /\ ~running.was_key) =>
             /\ running.session_id \notin DOMAIN running.store_before
             /\ _session_store[running.session_id] = <<>>
             /\ _session_store # running.store_before)
    /\ [][ /\ DOMAIN _session_store \subseteq DOMAIN _session_store'
           /\ DOMAIN _session_store' =
                 DOMAIN _session_store \cup
                    (IF ~InFlight /\ running'.stage # "idle"
                     THEN {running'.session_id} ELSE {}) ]_vars

\* the one request received, for an id the store did not know, failed and
\* is over: its id is a key, with an empty history
C19_Witness ==
    /\ ~InFlight
    /\ arrived = 1
    /\ inbox = <<>>
    /\ succeeded = <<>>
    /\ \E s \in DOMAIN _session_store : _session_store[s] = <<>>

=============================================================================
